---- MODULE Spec2Model ----
(***************************************************************************)
(* State-machine model of the TorBox provider adapter                      *)
(* (src/addon/src/moch/torbox.js): the availability check                  *)
(* (getCachedStreams / _checkCached) and the resolution pipeline           *)
(* (resolve / _createOrFindTorrent / _getFileIdForIndex /                  *)
(* _requestDownloadLink / _myList / _rethrowAuth).                         *)
(*                                                                         *)
(* Every `await` of the source is a point where another call may run, so   *)
(* every handler is cut at its awaits: one action per resumption.          *)
(***************************************************************************)
EXTENDS Integers, Sequences, FiniteSets, TLC

\* ------------------------------------------------------------------ bounds
\* longest stream list handed to getCachedStreams, one caller at a time
MaxLen == 3
\* largest maxChunkSize argument tried (the source's default is 100)
MaxChunk == 2
\* the same two, for two callers running concurrently
ConcMaxLen == 2
ConcMaxChunk == 1
\* longest file list of a torrent record, largest fileIndex, one resolve at a time
MaxFiles == 2
MaxIndex == 2
\* the same two, for two resolve calls running concurrently
ConcMaxFiles == 1
ConcMaxIndex == 0

\* ------------------------------------------------------------- value sets
\* concurrent callers of the adapter
Procs == {"p1", "p2"}

\* infohashes of the streams handed to getCachedStreams
AvailHashes == {"ab", "cd"}

\* an availability entry as the remote returns it with list_files=true
EmptyEntry == [files |-> <<>>]
FilesEntry == [files |-> <<"movie.mkv">>]
Entries == {EmptyEntry, FilesEntry}

\* the object {} of the source: a mapping with no key
EmptyMap == [h \in {} |-> EmptyEntry]

Range(s) == {s[i] : i \in DOMAIN s}

SeqsUpTo(S, n) == UNION {[1..k -> S] : k \in 0..n}

\* ------------------------------------------------------------------ errors
\* the sentinels of mochHelper.js and the errors the code can see
NoError == [kind |-> "none", status |-> 0, message |-> ""]
BadTokenError == [kind |-> "BadToken", status |-> 0, message |-> ""]
AccessDeniedError == [kind |-> "AccessDenied", status |-> 0, message |-> ""]
\* an axios failure; status 0 stands for "no response" (network error, timeout)
AxiosError(s) == [kind |-> "axios", status |-> s, message |-> ""]
\* new Error(message)
JsError(m) == [kind |-> "Error", status |-> 0, message |-> m]

\* statuses a failing read-style call can carry (0: no response at all)
FailStatuses == {0, 401, 402, 403, 500}

\* _rethrowAuth never returns: the value is what it throws
rethrowAuthSwapped(err) ==
    IF err.status = 402 THEN BadTokenError
    ELSE IF err.status = 401 \/ err.status = 403 THEN err
    ELSE err

rethrowAuth(err) ==
    IF err.status = 401 \/ err.status = 403 THEN BadTokenError
    ELSE IF err.status = 402 THEN AccessDeniedError
    ELSE err

\* ------------------------------------------------------ availability check
VARIABLES
    store,      \* the local availability cache: infohash -> entry (partial)
    apc,        \* per caller: "idle", "await", "done", "failed"
    hashes,     \* per caller: streams.map(s => s.infohash)
    chunkSz,    \* per caller: the maxChunkSize argument
    cached,     \* per caller: what getCachedAvailabilityResults answered
    chunks,     \* per caller: chunkArray(missing, maxChunkSize)
    ci,         \* per caller: index of the chunk whose request is in flight
    map,        \* per caller: the accumulator of the batch responses
    available,  \* per caller: what _checkCached returned
    acc,        \* per caller: what getCachedStreams returned (hash -> cached)
    aerr,       \* per caller: the error the call failed with
    ncalls,     \* history: check-cached requests issued by the call
    afail,      \* history: <<status>> of the check-cached request that failed
    snap        \* history: the local cache as it was when the call began

availVars == <<store, apc, hashes, chunkSz, cached, chunks, ci, map,
               available, acc, aerr, ncalls, afail, snap>>

\* the state of the resolution pipeline (its actions follow further down)
VARIABLES
    account,      \* the remote account: set of torrents [id, hash]
    rpc,          \* per caller: "idle", "create", "list", "detail", "link", "done"
    infohash,     \* per caller: parameters.infohash
    fileIndex,    \* per caller: parameters.fileIndex
    torrentId,    \* per caller: <<id>> once _createOrFindTorrent returned
    fileId,       \* per caller: <<fileId>> once _getFileIdForIndex returned
    outcome,      \* per caller: what resolve returned ("" while it runs)
    rerr,         \* per caller: the error caught by resolve
    regHist,      \* history: the last two ids the registrar returned, per infohash
    createStatus, \* history: <<status>> of the answer to the create request
    createdId,    \* history: <<id>> the answer to the create request carried
    failStatus,   \* history: <<status>> of the remote call that failed
    files,        \* history: <<torrent.files || []>> of the detail answer
    selected,     \* history: <<file>> that _getFileIdForIndex picked
    linkReq,      \* history: <<[torrent_id, file_id]>> of the requestdl call
    linkData,     \* history: <<[download, url]>> of the requestdl answer
    calls,        \* history: the remote calls the resolve call issued, in order
    observed      \* whether the history variables are recorded in this run

resolveVars == <<account, rpc, infohash, fileIndex, torrentId, fileId, outcome,
                 rerr, regHist, createStatus, createdId, failStatus, files,
                 selected, linkReq, linkData, calls, observed>>

\* a history value, recorded only in an observed run
Obs(new, old) == IF observed THEN new ELSE old

\* lib/cache.js get(hashes): the entries the cache holds for these hashes
getCachedAvailabilityResults(st, hs) ==
    [h \in (Range(hs) \cap DOMAIN st) |-> st[h]]

\* an entry the cache must not lose: cached with a non-empty file list
ValidEntry(e) == Len(e.files) > 0

\* a merge that overwrites whatever the cache held
MergeOverwrite(st, m) ==
    [h \in (DOMAIN st \cup DOMAIN m) |-> IF h \in DOMAIN m THEN m[h] ELSE st[h]]

\* lib/cache.js merge(mapping): new entries augment the cache and do not
\* replace an existing valid entry
MergeStore(st, m) ==
    [h \in (DOMAIN st \cup DOMAIN m) |->
        IF h \in DOMAIN st /\ (h \notin DOMAIN m \/ ValidEntry(st[h]))
        THEN st[h] ELSE m[h]]

\* what cacheAvailabilityResults(map) hands back: the mapping it was given
cacheAvailabilityResults(m) == m

RECURSIVE chunkArray(_, _)
chunkArray(arr, size) ==
    IF Len(arr) > size
    THEN <<SubSeq(arr, 1, size)>> \o chunkArray(SubSeq(arr, size + 1, Len(arr)), size)
    ELSE <<arr>>

\* hashes.filter(h => !cached[h])
MissingAll(hs, c) == hs

Missing(hs, c) ==
    LET absent(h) == h \notin DOMAIN c
    IN  SelectSeq(hs, absent)

\* Object.assign(map, data)
ObjectAssign(m, d) ==
    [h \in (DOMAIN m \cup DOMAIN d) |-> IF h \in DOMAIN d THEN d[h] ELSE m[h]]

\* for (const chunk of chunks): is there a chunk after the i-th
HasNextChunkOffByOne(cs, i) == i + 1 < Len(cs)

HasNextChunk(cs, i) == i < Len(cs)

\* lines 110-117: a batch that is not the last changes only the accumulator
StoreAfterBatchEager(st, m) == MergeStore(st, m)

StoreAfterBatch(st, m) == st

\* line 118: the accumulator is written through the cache
WriteBackSkipped(st, m) == st

WriteBack(st, m) == MergeStore(st, m)

\* !!(entry && entry.files && entry.files.length)
CachedFlag(av, h) == h \in DOMAIN av /\ Len(av[h].files) > 0

\* the reduce of getCachedStreams over the streams
StreamsResult(hs, av) == [h \in Range(hs) |-> CachedFlag(av, h)]

\* what the remote may answer to a check-cached query for a chunk
Responses(chunk) == UNION {[S -> Entries] : S \in SUBSET Range(chunk)}

AvailStart ==
    /\ store = EmptyMap
    /\ apc = [p \in Procs |-> "idle"]
    /\ hashes = [p \in Procs |-> <<>>]
    /\ chunkSz = [p \in Procs |-> 1]
    /\ cached = [p \in Procs |-> EmptyMap]
    /\ chunks = [p \in Procs |-> <<>>]
    /\ ci = [p \in Procs |-> 0]
    /\ map = [p \in Procs |-> EmptyMap]
    /\ available = [p \in Procs |-> EmptyMap]
    /\ acc = [p \in Procs |-> [h \in {} |-> FALSE]]
    /\ aerr = [p \in Procs |-> NoError]
    /\ ncalls = [p \in Procs |-> 0]
    /\ afail = [p \in Procs |-> <<>>]
    /\ snap = [p \in Procs |-> EmptyMap]

\* a call that sends the requests of all its batches at once
GetCachedStreamsBurst(p, maxLen, maxSz) ==
    /\ apc[p] = "idle"
    /\ \E hs \in SeqsUpTo(AvailHashes, maxLen), sz \in 1..maxSz :
        LET c == getCachedAvailabilityResults(store, hs)
            missing == Missing(hs, c)
        IN  /\ hashes' = [hashes EXCEPT ![p] = hs]
            /\ chunkSz' = [chunkSz EXCEPT ![p] = sz]
            /\ cached' = [cached EXCEPT ![p] = c]
            /\ IF Len(missing) = 0
               THEN /\ available' = [available EXCEPT ![p] = c]
                    /\ acc' = [acc EXCEPT ![p] = StreamsResult(hs, c)]
                    /\ apc' = [apc EXCEPT ![p] = "done"]
                    /\ UNCHANGED <<chunks, ci, ncalls>>
               ELSE /\ chunks' = [chunks EXCEPT ![p] = chunkArray(missing, sz)]
                    /\ ci' = [ci EXCEPT ![p] = 1]
                    /\ ncalls' = [ncalls EXCEPT ![p] = Len(chunkArray(missing, sz))]
                    /\ apc' = [apc EXCEPT ![p] = "await"]
                    /\ UNCHANGED <<available, acc>>
    /\ snap' = [snap EXCEPT ![p] = Obs(store, @)]
    /\ UNCHANGED <<store, map, aerr, afail>>
    /\ UNCHANGED resolveVars

\* getCachedStreams(streams, apiKey) -> _checkCached(hashes, apiKey, sz), from
\* the cache's answer (line 104) to the first request (line 112) or to the
\* return of line 106. The call commutes with every step before the cache
\* answers, so call and answer are one step.
GetCachedStreams(p, maxLen, maxSz) ==
    /\ apc[p] = "idle"
    /\ \E hs \in SeqsUpTo(AvailHashes, maxLen), sz \in 1..maxSz :
        LET c == getCachedAvailabilityResults(store, hs)
            missing == Missing(hs, c)
        IN  /\ hashes' = [hashes EXCEPT ![p] = hs]
            /\ chunkSz' = [chunkSz EXCEPT ![p] = sz]
            /\ cached' = [cached EXCEPT ![p] = c]
            /\ IF Len(missing) = 0
               THEN /\ available' = [available EXCEPT ![p] = c]
                    /\ acc' = [acc EXCEPT ![p] = StreamsResult(hs, c)]
                    /\ apc' = [apc EXCEPT ![p] = "done"]
                    /\ UNCHANGED <<chunks, ci, ncalls>>
               ELSE /\ chunks' = [chunks EXCEPT ![p] = chunkArray(missing, sz)]
                    /\ ci' = [ci EXCEPT ![p] = 1]
                    /\ ncalls' = [ncalls EXCEPT ![p] = 1]
                    /\ apc' = [apc EXCEPT ![p] = "await"]
                    /\ UNCHANGED <<available, acc>>
    /\ snap' = [snap EXCEPT ![p] = Obs(store, @)]
    /\ UNCHANGED <<store, map, aerr, afail>>
    /\ UNCHANGED resolveVars

\* a batch's response arrives: lines 112-118
CheckCachedOk(p) ==
    /\ apc[p] = "await"
    /\ \E data \in Responses(chunks[p][ci[p]]) :
        LET m == ObjectAssign(map[p], data)
        IN  /\ map' = [map EXCEPT ![p] = m]
            /\ IF HasNextChunk(chunks[p], ci[p])
               THEN /\ ci' = [ci EXCEPT ![p] = ci[p] + 1]
                    /\ ncalls' = [ncalls EXCEPT ![p] = ncalls[p] + 1]
                    /\ store' = StoreAfterBatch(store, m)
                    /\ UNCHANGED <<available, acc, apc>>
               ELSE /\ store' = WriteBack(store, m)
                    /\ available' = [available EXCEPT ![p] = cacheAvailabilityResults(m)]
                    /\ acc' = [acc EXCEPT ![p] =
                           StreamsResult(hashes[p], cacheAvailabilityResults(m))]
                    /\ apc' = [apc EXCEPT ![p] = "done"]
                    /\ UNCHANGED <<ci, ncalls>>
    /\ UNCHANGED <<hashes, chunkSz, cached, chunks, aerr, afail, snap>>
    /\ UNCHANGED resolveVars

\* a catch that swallows the failure: the loop goes on with an empty answer
CheckCachedFailSwallowed(p) ==
    /\ apc[p] = "await"
    /\ \E s \in FailStatuses :
        afail' = [afail EXCEPT ![p] = Obs(<<s>>, @)]
    /\ IF HasNextChunk(chunks[p], ci[p])
       THEN /\ ci' = [ci EXCEPT ![p] = ci[p] + 1]
            /\ ncalls' = [ncalls EXCEPT ![p] = ncalls[p] + 1]
            /\ UNCHANGED <<store, available, acc, apc>>
       ELSE /\ store' = WriteBack(store, map[p])
            /\ available' = [available EXCEPT ![p] = cacheAvailabilityResults(map[p])]
            /\ acc' = [acc EXCEPT ![p] =
                   StreamsResult(hashes[p], cacheAvailabilityResults(map[p]))]
            /\ apc' = [apc EXCEPT ![p] = "done"]
            /\ UNCHANGED <<ci, ncalls>>
    /\ UNCHANGED <<hashes, chunkSz, cached, chunks, map, aerr, snap>>
    /\ UNCHANGED resolveVars

\* a batch's request fails: .catch(_rethrowAuth), line 115
CheckCachedFail(p) ==
    /\ apc[p] = "await"
    /\ \E s \in FailStatuses :
        /\ aerr' = [aerr EXCEPT ![p] = rethrowAuth(AxiosError(s))]
        /\ afail' = [afail EXCEPT ![p] = Obs(<<s>>, @)]
    /\ apc' = [apc EXCEPT ![p] = "failed"]
    /\ UNCHANGED <<store, hashes, chunkSz, cached, chunks, ci, map, available,
                   acc, ncalls, snap>>
    /\ UNCHANGED resolveVars

\* the caller takes the result; the call's locals are gone
AvailReturn(p) ==
    /\ apc[p] \in {"done", "failed"}
    /\ apc' = [apc EXCEPT ![p] = "idle"]
    /\ hashes' = [hashes EXCEPT ![p] = <<>>]
    /\ chunkSz' = [chunkSz EXCEPT ![p] = 1]
    /\ cached' = [cached EXCEPT ![p] = EmptyMap]
    /\ chunks' = [chunks EXCEPT ![p] = <<>>]
    /\ ci' = [ci EXCEPT ![p] = 0]
    /\ map' = [map EXCEPT ![p] = EmptyMap]
    /\ available' = [available EXCEPT ![p] = EmptyMap]
    /\ acc' = [acc EXCEPT ![p] = [h \in {} |-> FALSE]]
    /\ aerr' = [aerr EXCEPT ![p] = NoError]
    /\ ncalls' = [ncalls EXCEPT ![p] = 0]
    /\ afail' = [afail EXCEPT ![p] = <<>>]
    /\ snap' = [snap EXCEPT ![p] = EmptyMap]
    /\ UNCHANGED store
    /\ UNCHANGED resolveVars

\* ------------------------------------------------------ resolution pipeline
\* infohashes handed to resolve, and the forms the remote may list them in
InfoHashes == {"ab", "AB", "cd"}
HashForms == {"ab", "AB", "cd", "CD"}

\* String.prototype.toLowerCase on these strings
toLowerCase(s) == CASE s = "AB" -> "ab" [] s = "CD" -> "cd" [] OTHER -> s

LowerHashes == {toLowerCase(h) : h \in HashForms}

\* ids the remote assigns to torrents, in this order
TorrentIds == {42, 43}

\* static.js
FAILED_ACCESS == "FAILED_ACCESS"
FAILED_UNEXPECTED == "FAILED_UNEXPECTED"

\* file names, and lib/extension.js isVideo on them
VideoExtensions == {"mkv", "mp4"}
isVideo(name) == name.ext \in VideoExtensions

\* files of a torrent record: id <<>> is an absent or null id
FileKinds ==
    { [name |-> [stem |-> "a", ext |-> "mkv"], id |-> <<>>],
      [name |-> [stem |-> "b", ext |-> "mp4"], id |-> <<0>>],
      [name |-> [stem |-> "c", ext |-> "mkv"], id |-> <<7>>],
      [name |-> [stem |-> "n", ext |-> "nfo"], id |-> <<3>>] }

\* links the remote may hand out; "" is an absent field
DownloadValues == {"", "https://cdn/x"}
UrlValues == {"", "https://cdn/y"}

\* the torrents of the account with this infohash
Matching(acct, h) == {t \in acct : toLowerCase(t.hash) = toLowerCase(h)}

\* the createtorrent endpoint creates a torrent only for an infohash the
\* account does not hold ("duplicates will error")
RemoteCreatesAlways(acct, h) == TRUE

RemoteCreates(acct, h) == Matching(acct, h) = {}

NewTorrentId(acct) ==
    CHOOSE i \in TorrentIds \ {t.id : t \in acct} :
        \A j \in TorrentIds \ {t.id : t \in acct} : i <= j

\* the remote has an id left to assign
IdsLeft(acct) == TorrentIds \ {t.id : t \in acct} # {}

\* the account after the remote created the torrent, listed under form f
AddTorrent(acct, f) == acct \cup {[id |-> NewTorrentId(acct), hash |-> f]}

\* list.find(t => (t.hash || '').toLowerCase() === infohash.toLowerCase())
FindByHashExact(list, h) == {t \in list : t.hash = h}

FindByHash(list, h) == {t \in list : toLowerCase(t.hash) = toLowerCase(h)}

\* (torrent.files || []).filter(f => isVideo(f.name))
VideoFilesUnfiltered(fl) == fl

VideoFiles(fl) ==
    LET vid(f) == isVideo(f.name)
    IN  SelectSeq(fl, vid)

\* (file.id != null) ? file.id : (index + 1)
FileIdForTruthy(file, index) ==
    IF file.id # <<>> /\ file.id[1] # 0 THEN file.id[1] ELSE index + 1

FileIdFor(file, index) ==
    IF file.id # <<>> THEN file.id[1] ELSE index + 1

\* data?.data?.download || data?.data?.url
LinkOfUrlFirst(download, url) == IF url # "" THEN url ELSE download

LinkOf(download, url) == IF download # "" THEN download ELSE url

\* the catch of resolve: lines 42-46
OutcomeOfAllAccess(err) == FAILED_ACCESS

OutcomeOf(err) ==
    IF err = BadTokenError THEN FAILED_ACCESS
    ELSE IF err = AccessDeniedError THEN FAILED_ACCESS
    ELSE FAILED_UNEXPECTED

\* what _myList(apiKey, id) may receive in data.data: nothing, one record, or
\* an array of records; a record may lack its file list
TorrentRecords(maxFiles) ==
    {[hasFiles |-> FALSE, files |-> <<>>]} \cup
    {[hasFiles |-> TRUE, files |-> fl] : fl \in SeqsUpTo(FileKinds, maxFiles)}

DetailPayloads(maxFiles) ==
    {[shape |-> "none", items |-> <<>>], [shape |-> "array", items |-> <<>>]} \cup
    {[shape |-> sh, items |-> <<t>>] :
        sh \in {"object", "array"}, t \in TorrentRecords(maxFiles)}

\* line 164: (data?.data && (Array.isArray(data.data) ? data.data[0] : data.data)) || {}
NormalizeDetail(payload) ==
    IF payload.items = <<>>
    THEN [hasFiles |-> FALSE, files |-> <<>>]
    ELSE payload.items[1]

\* torrent.files || []
FilesOf(torrent) == IF torrent.hasFiles THEN torrent.files ELSE <<>>

ResolveStart ==
    /\ account = {}
    /\ rpc = [p \in Procs |-> "idle"]
    /\ infohash = [p \in Procs |-> ""]
    /\ fileIndex = [p \in Procs |-> 0]
    /\ torrentId = [p \in Procs |-> <<>>]
    /\ fileId = [p \in Procs |-> <<>>]
    /\ outcome = [p \in Procs |-> ""]
    /\ rerr = [p \in Procs |-> NoError]
    /\ regHist = [h \in LowerHashes |-> <<>>]
    /\ createStatus = [p \in Procs |-> <<>>]
    /\ createdId = [p \in Procs |-> <<>>]
    /\ failStatus = [p \in Procs |-> <<>>]
    /\ files = [p \in Procs |-> <<>>]
    /\ selected = [p \in Procs |-> <<>>]
    /\ linkReq = [p \in Procs |-> <<>>]
    /\ linkData = [p \in Procs |-> <<>>]
    /\ calls = [p \in Procs |-> <<>>]

\* the registrar returned id for the infohash: keep the last two returns
Returned(hist, h, id) ==
    Obs([hist EXCEPT ![toLowerCase(h)] =
            IF Len(@) < 2 THEN Append(@, id) ELSE <<@[2], id>>], hist)

\* a throw inside the try of resolve: caught, classified, returned
ThrowKeepsGoing(p, err) ==
    /\ rerr' = [rerr EXCEPT ![p] = err]
    /\ outcome' = [outcome EXCEPT ![p] = OutcomeOf(err)]
    /\ rpc' = rpc

Throw(p, err) ==
    /\ rerr' = [rerr EXCEPT ![p] = err]
    /\ outcome' = [outcome EXCEPT ![p] = OutcomeOf(err)]
    /\ rpc' = [rpc EXCEPT ![p] = "done"]

\* resolve(parameters) up to the create request: lines 30-34, 123
Resolve(p, maxIdx) ==
    /\ rpc[p] = "idle"
    /\ \E h \in InfoHashes, i \in 0..maxIdx :
        /\ infohash' = [infohash EXCEPT ![p] = h]
        /\ fileIndex' = [fileIndex EXCEPT ![p] = i]
    /\ rpc' = [rpc EXCEPT ![p] = "create"]
    /\ calls' = [calls EXCEPT ![p] = Obs(<<"create">>, @)]
    /\ UNCHANGED <<account, torrentId, fileId, outcome, rerr, regHist,
                   createStatus, failStatus, files, selected, linkReq,
                   linkData>>
    /\ UNCHANGED createdId
    /\ UNCHANGED <<availVars, observed>>

\* _createOrFindTorrent returned id: _getFileIdForIndex asks for the record
ToDetail(p, id) ==
    /\ torrentId' = [torrentId EXCEPT ![p] = <<id>>]
    /\ regHist' = Returned(regHist, infohash[p], id)
    /\ rpc' = [rpc EXCEPT ![p] = "detail"]
    /\ calls' = [calls EXCEPT ![p] = Obs(Append(@, "detail"), @)]

\* create answers with the new torrent's id: line 131
CreateReturnsId(p) ==
    /\ rpc[p] = "create"
    /\ RemoteCreates(account, infohash[p])
    /\ IdsLeft(account)
    /\ \E f \in {g \in HashForms : toLowerCase(g) = toLowerCase(infohash[p])} :
        account' = AddTorrent(account, f)
    /\ createStatus' = [createStatus EXCEPT ![p] = Obs(<<200>>, @)]
    /\ createdId' = [createdId EXCEPT ![p] = Obs(<<NewTorrentId(account)>>, @)]
    /\ ToDetail(p, NewTorrentId(account))
    /\ UNCHANGED <<infohash, fileIndex, fileId, outcome, rerr, failStatus,
                   files, selected, linkReq, linkData>>
    /\ UNCHANGED <<availVars, observed>>

\* the fallback of line 134: _myList(apiKey) is asked
ToList(p) ==
    /\ rpc' = [rpc EXCEPT ![p] = "list"]
    /\ calls' = [calls EXCEPT ![p] = Obs(Append(@, "list"), @)]

\* create answers 2xx without an id; the remote may have queued the torrent
CreateReturnsNoId(p) ==
    /\ rpc[p] = "create"
    /\ \/ /\ RemoteCreates(account, infohash[p])
          /\ IdsLeft(account)
          /\ \E f \in {g \in HashForms : toLowerCase(g) = toLowerCase(infohash[p])} :
              account' = AddTorrent(account, f)
       \/ UNCHANGED account
    /\ createStatus' = [createStatus EXCEPT ![p] = Obs(<<200>>, @)]
    /\ ToList(p)
    /\ UNCHANGED <<infohash, fileIndex, torrentId, fileId, outcome, rerr,
                   regHist, failStatus, files, selected, linkReq, linkData>>
    /\ UNCHANGED createdId
    /\ UNCHANGED <<availVars, observed>>

\* statuses a failing create request can carry
CreateFailStatuses == FailStatuses \cup {400, 409}

\* line 127: the catch of the create request returns null for these
CreateErrorToleratedOnly409(s) == s = 409

CreateErrorTolerated(s) == s = 400 \/ s = 409

\* create answers 400 or 409 (409: the account holds the infohash): line 127
CreateRejected(p) ==
    /\ rpc[p] = "create"
    /\ \E s \in CreateFailStatuses :
        /\ CreateErrorTolerated(s)
        /\ s = 409 => Matching(account, infohash[p]) # {}
        /\ createStatus' = [createStatus EXCEPT ![p] = Obs(<<s>>, @)]
    /\ ToList(p)
    /\ UNCHANGED <<account, infohash, fileIndex, torrentId, fileId, outcome,
                   rerr, regHist, failStatus, files, selected, linkReq,
                   linkData>>
    /\ UNCHANGED createdId
    /\ UNCHANGED <<availVars, observed>>

\* create fails otherwise: _rethrowAuth, line 128
CreateFails(p) ==
    /\ rpc[p] = "create"
    /\ \E s \in CreateFailStatuses :
        /\ ~CreateErrorTolerated(s)
        /\ s = 409 => Matching(account, infohash[p]) # {}
        /\ createStatus' = [createStatus EXCEPT ![p] = Obs(<<s>>, @)]
        /\ failStatus' = [failStatus EXCEPT ![p] = Obs(<<s>>, @)]
        /\ Throw(p, rethrowAuth(AxiosError(s)))
    /\ UNCHANGED <<account, infohash, fileIndex, torrentId, fileId, regHist,
                   files, selected, linkReq, linkData, calls>>
    /\ UNCHANGED createdId
    /\ UNCHANGED <<availVars, observed>>

\* the list arrives: lines 135-137, then line 141
ListOk(p) ==
    /\ rpc[p] = "list"
    /\ LET found == FindByHash(account, infohash[p])
       IN  IF found = {}
           THEN /\ Throw(p, JsError("Torrent not found/created"))
                /\ UNCHANGED <<torrentId, regHist, calls>>
           ELSE /\ ToDetail(p, (CHOOSE t \in found : TRUE).id)
                /\ UNCHANGED <<outcome, rerr>>
    /\ UNCHANGED <<account, infohash, fileIndex, fileId, createStatus,
                   failStatus, files, selected, linkReq, linkData>>
    /\ UNCHANGED createdId
    /\ UNCHANGED <<availVars, observed>>

\* the list request fails: .catch(_rethrowAuth), line 162
ListFails(p) ==
    /\ rpc[p] = "list"
    /\ \E s \in FailStatuses :
        /\ failStatus' = [failStatus EXCEPT ![p] = Obs(<<s>>, @)]
        /\ Throw(p, rethrowAuth(AxiosError(s)))
    /\ UNCHANGED <<account, infohash, fileIndex, torrentId, fileId, regHist,
                   createStatus, files, selected, linkReq, linkData, calls>>
    /\ UNCHANGED createdId
    /\ UNCHANGED <<availVars, observed>>

\* the torrent record arrives: lines 164, 142-145, then line 150
DetailOk(p, maxFiles) ==
    /\ rpc[p] = "detail"
    /\ \E payload \in DetailPayloads(maxFiles) :
        LET torrent == NormalizeDetail(payload)
            vids == VideoFiles(FilesOf(torrent))
        IN  /\ files' = [files EXCEPT ![p] = Obs(<<FilesOf(torrent)>>, @)]
            /\ IF fileIndex[p] + 1 > Len(vids)
               THEN /\ Throw(p, JsError("File index out of range"))
                    /\ UNCHANGED <<fileId, selected, linkReq, calls>>
               ELSE LET fid == FileIdFor(vids[fileIndex[p] + 1], fileIndex[p])
                    IN  /\ fileId' = [fileId EXCEPT ![p] = <<fid>>]
                        /\ selected' = [selected EXCEPT ![p] =
                               Obs(<<vids[fileIndex[p] + 1]>>, @)]
                        /\ linkReq' = [linkReq EXCEPT ![p] =
                               Obs(<<[torrent_id |-> torrentId[p][1], file_id |-> fid]>>, @)]
                        /\ rpc' = [rpc EXCEPT ![p] = "link"]
                        /\ calls' = [calls EXCEPT ![p] = Obs(Append(@, "link"), @)]
                        /\ UNCHANGED <<outcome, rerr>>
    /\ UNCHANGED <<account, infohash, fileIndex, torrentId, regHist,
                   createStatus, failStatus, linkData>>
    /\ UNCHANGED createdId
    /\ UNCHANGED <<availVars, observed>>

\* the record request fails: .catch(_rethrowAuth), line 162
DetailFails(p) ==
    /\ rpc[p] = "detail"
    /\ \E s \in FailStatuses :
        /\ failStatus' = [failStatus EXCEPT ![p] = Obs(<<s>>, @)]
        /\ Throw(p, rethrowAuth(AxiosError(s)))
    /\ UNCHANGED <<account, infohash, fileIndex, torrentId, fileId, regHist,
                   createStatus, files, selected, linkReq, linkData, calls>>
    /\ UNCHANGED createdId
    /\ UNCHANGED <<availVars, observed>>

\* requestdl answers: lines 151-154, 41
LinkOk(p) ==
    /\ rpc[p] = "link"
    /\ \E d \in DownloadValues, u \in UrlValues :
        /\ linkData' = [linkData EXCEPT ![p] = Obs(<<[download |-> d, url |-> u]>>, @)]
        /\ IF LinkOf(d, u) = ""
           THEN Throw(p, JsError("No download link"))
           ELSE /\ outcome' = [outcome EXCEPT ![p] = LinkOf(d, u)]
                /\ rpc' = [rpc EXCEPT ![p] = "done"]
                /\ UNCHANGED rerr
    /\ UNCHANGED <<account, infohash, fileIndex, torrentId, fileId, regHist,
                   createStatus, failStatus, files, selected, linkReq, calls>>
    /\ UNCHANGED createdId
    /\ UNCHANGED <<availVars, observed>>

\* requestdl fails: line 151 has no .catch, the axios error reaches resolve
LinkFails(p) ==
    /\ rpc[p] = "link"
    /\ \E s \in FailStatuses :
        /\ failStatus' = [failStatus EXCEPT ![p] = Obs(<<s>>, @)]
        /\ Throw(p, AxiosError(s))
    /\ UNCHANGED <<account, infohash, fileIndex, torrentId, fileId, regHist,
                   createStatus, files, selected, linkReq, linkData, calls>>
    /\ UNCHANGED createdId
    /\ UNCHANGED <<availVars, observed>>

\* the caller takes the outcome; the call's locals are gone
ResolveReturn(p) ==
    /\ rpc[p] = "done"
    /\ rpc' = [rpc EXCEPT ![p] = "idle"]
    /\ infohash' = [infohash EXCEPT ![p] = ""]
    /\ fileIndex' = [fileIndex EXCEPT ![p] = 0]
    /\ torrentId' = [torrentId EXCEPT ![p] = <<>>]
    /\ fileId' = [fileId EXCEPT ![p] = <<>>]
    /\ outcome' = [outcome EXCEPT ![p] = ""]
    /\ rerr' = [rerr EXCEPT ![p] = NoError]
    /\ createStatus' = [createStatus EXCEPT ![p] = <<>>]
    /\ createdId' = [createdId EXCEPT ![p] = <<>>]
    /\ failStatus' = [failStatus EXCEPT ![p] = <<>>]
    /\ files' = [files EXCEPT ![p] = <<>>]
    /\ selected' = [selected EXCEPT ![p] = <<>>]
    /\ linkReq' = [linkReq EXCEPT ![p] = <<>>]
    /\ linkData' = [linkData EXCEPT ![p] = <<>>]
    /\ calls' = [calls EXCEPT ![p] = <<>>]
    /\ UNCHANGED <<account, regHist>>
    /\ UNCHANGED <<availVars, observed>>

\* --------------------------------------------------------- specifications
vars == <<availVars, resolveVars>>

Init == AvailStart /\ ResolveStart /\ observed = TRUE

\* the same start, the history variables of resolve left unrecorded
InitUnobserved == AvailStart /\ ResolveStart /\ observed = FALSE

\* availability check, one caller: calls follow one another
AvailNext ==
    \/ GetCachedStreams("p1", MaxLen, MaxChunk)
    \/ CheckCachedOk("p1")
    \/ CheckCachedFail("p1")
    \/ AvailReturn("p1")

SpecAvail == Init /\ [][AvailNext]_vars

\* availability check, two callers: their calls interleave at every await;
\* the history variables that describe one call are left unrecorded here
AvailConcNext ==
    \E p \in Procs :
        \/ GetCachedStreams(p, ConcMaxLen, ConcMaxChunk)
        \/ CheckCachedOk(p)
        \/ CheckCachedFail(p)
        \/ AvailReturn(p)

SpecAvailConc == InitUnobserved /\ [][AvailConcNext]_vars

\* resolve, one caller
ResolveNext ==
    \/ Resolve("p1", MaxIndex)
    \/ CreateReturnsId("p1")
    \/ CreateReturnsNoId("p1")
    \/ CreateRejected("p1")
    \/ CreateFails("p1")
    \/ ListOk("p1")
    \/ ListFails("p1")
    \/ DetailOk("p1", MaxFiles)
    \/ DetailFails("p1")
    \/ LinkOk("p1")
    \/ LinkFails("p1")
    \/ ResolveReturn("p1")

SpecResolve == Init /\ [][ResolveNext]_vars

\* the steps that end an await of the running resolve call
ResolveAnswer(p) ==
    \/ CreateReturnsId(p)
    \/ CreateReturnsNoId(p)
    \/ CreateRejected(p)
    \/ CreateFails(p)
    \/ ListOk(p)
    \/ ListFails(p)
    \/ DetailOk(p, MaxFiles)
    \/ DetailFails(p)
    \/ LinkOk(p)
    \/ LinkFails(p)

\* resolve, one caller, every request answered or timed out (the timeouts of
\* lines 125, 161 and 151 end every await)
SpecResolveLive == Init /\ [][ResolveNext]_vars /\ WF_vars(ResolveAnswer("p1"))

\* resolve, two callers on one account; the history variables describe one
\* call and are left unrecorded here
ResolveConcNext ==
    \E p \in Procs :
        \/ Resolve(p, ConcMaxIndex)
        \/ CreateReturnsId(p)
        \/ CreateReturnsNoId(p)
        \/ CreateRejected(p)
        \/ CreateFails(p)
        \/ ListOk(p)
        \/ ListFails(p)
        \/ DetailOk(p, ConcMaxFiles)
        \/ DetailFails(p)
        \/ LinkOk(p)
        \/ LinkFails(p)
        \/ ResolveReturn(p)

SpecResolveConc == InitUnobserved /\ [][ResolveConcNext]_vars

\* ------------------------------------------- claims on the availability check
\* the chunk whose check-cached request is in flight
InFlight(p) == chunks[p][ci[p]]

\* an entry of a mapping that is cached with a non-empty file list
HasFiles(m, h) == h \in DOMAIN m /\ ValidEntry(m[h])

\* the input positions whose hash the local cache did not hold at the read
NumMissing(p) ==
    Cardinality({i \in DOMAIN hashes[p] : hashes[p][i] \notin DOMAIN cached[p]})

Ceil(n, b) == (n + b - 1) \div b

\* C2: when a call that had at least one missing hash completes, every hash of
\* the input that the local cache held before the call keeps that entry in
\* the returned mapping, and a stream cached with files is reported cached.
C2_ReturnCoversKnown ==
    \A p \in Procs :
        (apc[p] = "done" /\ ncalls[p] > 0) =>
            \A h \in DOMAIN cached[p] :
                /\ h \in DOMAIN available[p]
                /\ available[p][h] = cached[p][h]
                /\ acc[p][h] = ValidEntry(cached[p][h])

\* C5: no check-cached request carries a hash that the local cache held with
\* a non-empty file list when the call read it; and when no hash of the input
\* was missing, no request is issued and the cached mapping is returned as read.
C5_CacheHitShortCircuit ==
    \A p \in Procs :
        /\ apc[p] = "await" =>
              \A h \in Range(InFlight(p)) : ~HasFiles(cached[p], h)
        /\ (apc[p] = "done" /\ Range(hashes[p]) \subseteq DOMAIN cached[p]) =>
              /\ ncalls[p] = 0
              /\ available[p] = cached[p]

\* C5 witness: a request is in flight for a call one of whose hashes was
\* held with files and left out of the query
C5_Witness ==
    \E p \in Procs :
        /\ apc[p] = "await"
        /\ \E h \in Range(hashes[p]) : HasFiles(cached[p], h)

\* C6: a call that completes without a failing request has issued
\* ceil(|missing| / maxChunkSize) requests, missing being hashes.filter(not in
\* the local cache), and no request carries more than maxChunkSize hashes.
C6_BatchCount ==
    \A p \in Procs :
        /\ apc[p] = "await" =>
              /\ Len(InFlight(p)) <= chunkSz[p]
              /\ ncalls[p] <= Ceil(NumMissing(p), chunkSz[p])
        /\ apc[p] = "done" => ncalls[p] = Ceil(NumMissing(p), chunkSz[p])

\* C6 witness: a completed call that needed more than one batch and had a
\* hash the local cache already held
C6_Witness ==
    \E p \in Procs :
        /\ apc[p] = "done"
        /\ ncalls[p] > 1
        /\ NumMissing(p) < Len(hashes[p])

\* C7: after a successful call every hash for which the accumulated remote
\* answer has a non-empty file list is in the local cache with files; and a
\* call over hashes that are all in the cache with files issues no request
\* and reports every one of them cached.
C7_StoredThenNoRemoteCall ==
    \A p \in Procs :
        /\ (apc[p] = "done" /\ ncalls[p] > 0) =>
              \A h \in DOMAIN map[p] : ValidEntry(map[p][h]) => HasFiles(store, h)
        /\ (apc[p] = "done" /\ \A h \in Range(hashes[p]) : HasFiles(cached[p], h)) =>
              /\ ncalls[p] = 0
              /\ \A h \in Range(hashes[p]) : acc[p][h]

\* C7 witness: a repeated call over hashes stored by an earlier call (the
\* cache starts empty) has completed without a request and reports them cached
C7_Witness ==
    \E p \in Procs :
        /\ apc[p] = "done"
        /\ ncalls[p] = 0
        /\ hashes[p] # <<>>
        /\ \A h \in Range(hashes[p]) : HasFiles(cached[p], h) /\ acc[p][h]

AuthStatuses == {401, 402, 403}

\* C1: whichever remote call of resolve fails with status 401, 403 or 402,
\* resolve returns the "access failed" outcome.
C1_AuthFailureIsAccessFailed ==
    \A p \in Procs :
        (rpc[p] = "done" /\ failStatus[p] # <<>> /\ failStatus[p][1] \in AuthStatuses)
            => outcome[p] = FAILED_ACCESS

\* the remote answered the list request of the call without a failure
ListAnswered(p) ==
    /\ Len(calls[p]) >= 2
    /\ calls[p][2] = "list"
    /\ rpc[p] # "list"
    /\ failStatus[p] = <<>>

\* C3: two registrar calls in sequence for one infohash return the same id;
\* a call whose create was rejected or gave no id, and whose list holds the
\* torrent, returns that torrent's id instead of raising; and the remote has
\* created at most one torrent for the infohash.
C3_RegistrarIdempotent ==
    /\ \A h \in LowerHashes :
          /\ Len(regHist[h]) = 2 => regHist[h][1] = regHist[h][2]
          /\ Cardinality(Matching(account, h)) <= 1
    /\ \A p \in Procs :
          (ListAnswered(p) /\ Matching(account, infohash[p]) # {}) =>
              /\ rerr[p].message # "Torrent not found/created"
              /\ torrentId[p] # <<>>
              /\ \E t \in Matching(account, infohash[p]) : torrentId[p] = <<t.id>>

\* C3 witness: the second call for an infohash met a duplicate rejection,
\* found the torrent in the list and returned the id the first call returned
C3_Witness ==
    \E p \in Procs :
        /\ createStatus[p] \in {<<400>>, <<409>>}
        /\ ListAnswered(p)
        /\ torrentId[p] # <<>>
        /\ regHist[toLowerCase(infohash[p])] = <<torrentId[p][1], torrentId[p][1]>>

VideoPositions(fl) == {j \in DOMAIN fl : fl[j].name.ext \in VideoExtensions}

\* the position in the raw list of the n-th video file (n counted from 0)
NthVideoPosition(fl, n) ==
    CHOOSE j \in VideoPositions(fl) :
        Cardinality({k \in VideoPositions(fl) : k < j}) = n

\* C9: once the torrent record arrived, a fileIndex below the number of video
\* files has selected the fileIndex-th video file of the list in list order,
\* and any other fileIndex has failed with "File index out of range" and
\* produced no file id and no link request.
C9_MapIndexOverVideosOnly ==
    \A p \in Procs :
        files[p] # <<>> =>
            LET fl == files[p][1]
            IN  IF fileIndex[p] < Cardinality(VideoPositions(fl))
                THEN /\ selected[p] = <<fl[NthVideoPosition(fl, fileIndex[p])]>>
                     /\ rerr[p].message # "File index out of range"
                ELSE /\ rpc[p] = "done"
                     /\ rerr[p] = JsError("File index out of range")
                     /\ outcome[p] = FAILED_UNEXPECTED
                     /\ selected[p] = <<>>
                     /\ fileId[p] = <<>>
                     /\ linkReq[p] = <<>>

\* C9 witness: the selected video file is not the element of the raw list at
\* fileIndex
C9_Witness ==
    \E p \in Procs :
        /\ files[p] # <<>>
        /\ selected[p] # <<>>
        /\ fileIndex[p] + 1 <= Len(files[p][1])
        /\ files[p][1][fileIndex[p] + 1] # selected[p][1]

\* C10: the requestdl call carries the torrent id the registrar returned and,
\* as file id, the selected file's own id (0 included) or fileIndex + 1 when
\* the file has none; and a download link the remote supplies is returned.
C10_FileIdFallback ==
    \A p \in Procs :
        /\ linkReq[p] # <<>> =>
              /\ selected[p] # <<>>
              /\ linkReq[p][1].torrent_id = torrentId[p][1]
              /\ linkReq[p][1].file_id =
                    IF selected[p][1].id = <<>>
                    THEN fileIndex[p] + 1
                    ELSE selected[p][1].id[1]
        /\ (linkData[p] # <<>> /\ linkData[p][1].download # "") =>
              /\ rpc[p] = "done"
              /\ outcome[p] = linkData[p][1].download

\* C10 witness: create returned id 42, the only video has no id, fileIndex is
\* 0: requestdl was asked for file_id 1 of torrent 42 and its link returned
C10_Witness ==
    \E p \in Procs :
        /\ rpc[p] = "done"
        /\ calls[p] = <<"create", "detail", "link">>
        /\ fileIndex[p] = 0
        /\ files[p] = << <<[name |-> [stem |-> "a", ext |-> "mkv"], id |-> <<>>]>> >>
        /\ linkReq[p] = <<[torrent_id |-> 42, file_id |-> 1]>>
        /\ outcome[p] = "https://cdn/x"

\* C10 witness of the other branch: a file whose id is 0 keeps it
C10_WitnessIdZero ==
    \E p \in Procs :
        /\ linkReq[p] # <<>>
        /\ selected[p][1].id = <<0>>
        /\ linkReq[p][1].file_id = 0

\* C11: a create request answered 400 or 409, or answered without an id, is
\* followed by the list request instead of a failure; once the list is
\* answered the call holds the id of the listed torrent of that infohash
\* (compared case-insensitively) and has gone on to the detail request, or,
\* when no listed torrent matches, has failed with "Torrent not found/created";
\* an id carried by the create answer is the id used, without a list request.
C11_CreateFallback ==
    \A p \in Procs :
        /\ (createStatus[p] \in {<<400>>, <<409>>}
              \/ (createStatus[p] = <<200>> /\ createdId[p] = <<>>)) =>
              /\ Len(calls[p]) >= 2
              /\ calls[p][2] = "list"
              /\ rpc[p] = "list" => rerr[p] = NoError
        /\ ListAnswered(p) =>
              IF Matching(account, infohash[p]) # {}
              THEN /\ \E t \in Matching(account, infohash[p]) : torrentId[p] = <<t.id>>
                   /\ Len(calls[p]) >= 3
                   /\ calls[p][3] = "detail"
              ELSE /\ rpc[p] = "done"
                   /\ rerr[p] = JsError("Torrent not found/created")
                   /\ torrentId[p] = <<>>
                   /\ calls[p] = <<"create", "list">>
        /\ createdId[p] # <<>> =>
              /\ torrentId[p] = createdId[p]
              /\ \A i \in DOMAIN calls[p] : calls[p][i] # "list"
              /\ Len(calls[p]) >= 2
              /\ calls[p][2] = "detail"

\* C11 witness (scenario C): create answered 409, the list holds the infohash
\* under another letter case, and resolve returned a link for that torrent
C11_Witness ==
    \E p \in Procs :
        /\ createStatus[p] = <<409>>
        /\ calls[p] = <<"create", "list", "detail", "link">>
        /\ \E t \in account :
              /\ t.hash # infohash[p]
              /\ torrentId[p] = <<t.id>>
        /\ rpc[p] = "done"
        /\ outcome[p] \in {"https://cdn/x", "https://cdn/y"}

\* C11 witness of the other branch: create answered 400 and no listed torrent
\* matches
C11_WitnessNotFound ==
    \E p \in Procs :
        /\ createStatus[p] = <<400>>
        /\ rerr[p] = JsError("Torrent not found/created")
        /\ outcome[p] = FAILED_UNEXPECTED

\* the links the remote can hand out
LinkValues == (DownloadValues \cup UrlValues) \ {""}

\* what a finished resolve call has returned
ReturnedOutcome(p) ==
    /\ outcome[p] \in LinkValues \cup {FAILED_ACCESS, FAILED_UNEXPECTED}
    /\ rerr[p] = NoError <=> outcome[p] \in LinkValues
    /\ rerr[p] \in {BadTokenError, AccessDeniedError} <=> outcome[p] = FAILED_ACCESS
    /\ rerr[p] \notin {NoError, BadTokenError, AccessDeniedError} =>
          outcome[p] = FAILED_UNEXPECTED

\* C12: a resolve call in progress has returned nothing and thrown nothing
\* out; a finished one has returned a link, "access failed" or "unexpected
\* failure", the last for every caught failure that is neither BadToken nor
\* AccessDenied; and every call that was started finishes.
C12_AlwaysReturnsOutcome ==
    /\ [](\A p \in Procs :
            IF rpc[p] = "done"
            THEN ReturnedOutcome(p)
            ELSE outcome[p] = "" /\ rerr[p] = NoError)
    /\ \A p \in {"p1"} : (rpc[p] = "create") ~> (rpc[p] = "done")

\* C12 witness: a call finished with "unexpected failure" after a failure
\* that is not a status of the remote
C12_Witness ==
    \E p \in Procs :
        /\ rpc[p] = "done"
        /\ rerr[p].kind = "Error"
        /\ failStatus[p] = <<>>
        /\ outcome[p] = FAILED_UNEXPECTED

\* the remote call the resolve call issued last
LastCall(p) == calls[p][Len(calls[p])]

\* C13: wherever _rethrowAuth handled the failure of a request (create, list,
\* detail), the error thrown depends on the status alone: BadToken for 401
\* and 403, AccessDenied for 402, the failure itself for any other status and
\* for no response; and the call went no further than the failed request.
C13_ClassifierByStatus ==
    \A p \in Procs :
        (failStatus[p] # <<>> /\ LastCall(p) # "link") =>
            LET st == failStatus[p][1]
            IN  /\ st \in {401, 403} => rerr[p] = BadTokenError
                /\ st = 402 => rerr[p] = AccessDeniedError
                /\ st \notin {401, 402, 403} => rerr[p] = AxiosError(st)
                /\ rpc[p] = "done"
                /\ outcome[p] \in {FAILED_ACCESS, FAILED_UNEXPECTED}

\* C13 witness: the detail request failed with 402 and AccessDenied was thrown
C13_Witness ==
    \E p \in Procs :
        /\ failStatus[p] = <<402>>
        /\ LastCall(p) = "detail"
        /\ rerr[p] = AccessDeniedError

\* C13 witness of the unchanged branch: a request got no response at all
C13_WitnessNoResponse ==
    \E p \in Procs :
        /\ failStatus[p] = <<0>>
        /\ LastCall(p) = "list"
        /\ rerr[p] = AxiosError(0)

\* the orders in which one resolve call can have issued its remote calls
StageOrders ==
    UNION {{SubSeq(o, 1, k) : k \in 1..Len(o)} :
        o \in {<<"create", "detail", "link">>, <<"create", "list", "detail", "link">>}}

StagesInOrder(p) ==
    /\ calls[p] \in StageOrders
    /\ rpc[p] \in {"create", "list", "detail", "link"} => LastCall(p) = rpc[p]
    /\ (\E i \in DOMAIN calls[p] : calls[p][i] = "detail") => torrentId[p] # <<>>
    /\ (\E i \in DOMAIN calls[p] : calls[p][i] = "link") =>
          torrentId[p] # <<>> /\ fileId[p] # <<>>
    /\ rerr[p] # NoError => rpc[p] = "done"

\* C14: the remote calls of one resolve call are a prefix of create, (list,)
\* detail, link, each issued at most once; the detail call is issued only
\* with a torrent id in hand and the link call only with a file id in hand;
\* and after a failure the call issues no further remote call.
C14_StagesInOrderNoRetry ==
    /\ [](\A p \in Procs : rpc[p] # "idle" => StagesInOrder(p))
    /\ [][\A p \in Procs :
            /\ (rerr[p] # NoError \/ rpc[p] = "done") => calls'[p] \in {calls[p], <<>>}
            /\ calls'[p] # calls[p] =>
                  \/ calls'[p] = <<>>
                  \/ calls[p] = <<>> /\ calls'[p] = <<"create">>
                  \/ \E c \in {"list", "detail", "link"} : calls'[p] = Append(calls[p], c)]_vars

\* C14 witness: the detail stage failed after the registrar went through the
\* list, and the call ended without a link request
C14_Witness ==
    \E p \in Procs :
        /\ rpc[p] = "done"
        /\ rerr[p] # NoError
        /\ calls[p] = <<"create", "list", "detail">>
        /\ torrentId[p] # <<>>
        /\ fileId[p] = <<>>

\* ------------------------------- further claims on the availability check
\* C15: when the request of any batch fails, the call fails with BadToken for
\* 401 and 403, AccessDenied for 402 and the failure itself otherwise; it
\* returns no mapping and no stream result, also when earlier batches were
\* answered; the failed request is the last one the call issued, and the
\* call does nothing more than hand the error to its caller.
C15_BatchFailureAbortsCall ==
    /\ [](\A p \in Procs :
            afail[p] # <<>> =>
                LET st == afail[p][1]
                IN  /\ apc[p] = "failed"
                    /\ st \in {401, 403} => aerr[p] = BadTokenError
                    /\ st = 402 => aerr[p] = AccessDeniedError
                    /\ st \notin {401, 402, 403} => aerr[p] = AxiosError(st)
                    /\ available[p] = EmptyMap
                    /\ DOMAIN acc[p] = {}
                    /\ ncalls[p] = ci[p])
    /\ [][\A p \in Procs :
            apc[p] = "failed" =>
                \/ apc'[p] = "idle"
                \/ apc'[p] = "failed" /\ ncalls'[p] = ncalls[p]]_vars

\* C15 witness: the second of three batches failed after the first was
\* answered with an entry
C15_Witness ==
    \E p \in Procs :
        /\ apc[p] = "failed"
        /\ afail[p] = <<401>>
        /\ aerr[p] = BadTokenError
        /\ map[p] # EmptyMap
        /\ ncalls[p] = 2
        /\ Len(chunks[p]) = 3

\* C16: when a call that queried the remote completes, every hash of the
\* input that the local cache did not hold has an entry in the returned
\* mapping, an empty one if the remote returned none for it.
C16_MissingHaveEntry ==
    \A p \in Procs :
        (apc[p] = "done" /\ ncalls[p] > 0) =>
            \A h \in Range(hashes[p]) \ DOMAIN cached[p] :
                h \in DOMAIN available[p]

\* the hashes of the batches before the i-th
HashesBefore(cs, i) == UNION {Range(cs[j]) : j \in 1..(i - 1)}

\* C17: while a call waits for a batch, that batch's request is the only one
\* outstanding: as many requests were issued as batches were started, and
\* every earlier batch has been answered and merged into the accumulator,
\* which holds nothing of the current or a later batch's answer; the request
\* of the next batch is issued in the step that merges the answer to the
\* current one, one request at a time.
C17_BatchesSequential ==
    /\ [](\A p \in Procs :
            apc[p] = "await" =>
                /\ ncalls[p] = ci[p]
                /\ ci[p] \in 1..Len(chunks[p])
                /\ DOMAIN map[p] \subseteq HashesBefore(chunks[p], ci[p]))
    /\ [][\A p \in Procs :
            (ncalls[p] > 0 /\ ncalls'[p] > ncalls[p]) =>
                /\ apc[p] = "await"
                /\ ncalls'[p] = ncalls[p] + 1
                /\ ci'[p] = ci[p] + 1
                /\ \E data \in Responses(chunks[p][ci[p]]) :
                      map'[p] = ObjectAssign(map[p], data)]_vars

\* C17 witness: the request of the third batch is outstanding and the answers
\* to the first two are merged
C17_Witness ==
    \E p \in Procs :
        /\ apc[p] = "await"
        /\ ci[p] = 3
        /\ ncalls[p] = 3
        /\ map[p] # EmptyMap

\* the hashes a call puts in its queries, batch after batch
RECURSIVE Flatten(_)
Flatten(cs) == IF cs = <<>> THEN <<>> ELSE Head(cs) \o Flatten(Tail(cs))

\* C18: no infohash occurs twice in the queries of one call, whether in one
\* batch or in two.
C18_NoDuplicateQuery ==
    \A p \in Procs :
        apc[p] = "await" =>
            LET q == Flatten(chunks[p])
            IN  \A i, j \in DOMAIN q : q[i] = q[j] => i = j

\* C19: while a call waits for a batch, and once it has failed, the local
\* cache is as it was when the call began, whatever the answered batches
\* held; the cache changes only in the step that completes a call whose
\* every batch was answered.
C19_FailureLeavesCacheUntouched ==
    /\ [](\A p \in {"p1"} : apc[p] \in {"await", "failed"} => store = snap[p])
    /\ [][store' # store =>
            \E p \in Procs :
                /\ apc[p] = "await"
                /\ apc'[p] = "done"
                /\ ci[p] = Len(chunks[p])]_vars

\* C19 witness: a call failed after a batch was answered with a file list for
\* a hash, and the local cache holds no entry for that hash
C19_Witness ==
    \E p \in Procs : \E h \in AvailHashes :
        /\ apc[p] = "failed"
        /\ HasFiles(map[p], h)
        /\ h \notin DOMAIN store
        /\ store = snap[p]

\* ------------------------------------------------ claim on the link request
\* how many times the resolve call issued this remote call
TimesCalled(p, c) == Cardinality({i \in DOMAIN calls[p] : calls[p][i] = c})

\* C20: the link requester issues one request; once it is answered, resolve
\* has returned the answer's "download" field when that is non-empty,
\* otherwise its "url" field when that is non-empty, and otherwise has failed
\* with "No download link" and returned no link.
C20_DownloadThenUrl ==
    \A p \in Procs :
        /\ TimesCalled(p, "link") <= 1
        /\ linkData[p] # <<>> =>
              LET d == linkData[p][1].download
                  u == linkData[p][1].url
              IN  /\ TimesCalled(p, "link") = 1
                  /\ rpc[p] = "done"
                  /\ d # "" => outcome[p] = d /\ rerr[p] = NoError
                  /\ (d = "" /\ u # "") => outcome[p] = u /\ rerr[p] = NoError
                  /\ (d = "" /\ u = "") =>
                        /\ rerr[p] = JsError("No download link")
                        /\ outcome[p] = FAILED_UNEXPECTED

\* C20 witness: the answer carried both fields and the download field won
C20_Witness ==
    \E p \in Procs :
        /\ linkData[p] = <<[download |-> "https://cdn/x", url |-> "https://cdn/y"]>>
        /\ outcome[p] = "https://cdn/x"

\* C20 witnesses of the other two branches
C20_WitnessUrl ==
    \E p \in Procs :
        /\ linkData[p] = <<[download |-> "", url |-> "https://cdn/y"]>>
        /\ outcome[p] = "https://cdn/y"

C20_WitnessNoLink ==
    \E p \in Procs :
        /\ linkData[p] = <<[download |-> "", url |-> ""]>>
        /\ rerr[p] = JsError("No download link")

====
